---- MODULE Spec2Model ----
(***************************************************************************)
(* Model of the two development servers of the repository:                 *)
(*   scripts/dev-server.py      plain HTTP server, WebGPUHTTPRequestHandler *)
(*   start_https_server.py      HTTPS server with certificate bootstrap     *)
(* Strings the code inspects (paths, MIME types, log lines) are sequences  *)
(* of one-character strings, so that endswith, the "in" substring test and *)
(* tuple unpacking are computed as Python computes them.                   *)
(***************************************************************************)
EXTENDS Naturals, Integers, Sequences, FiniteSets, TLC

VARIABLES
    prog,          \* which script runs: "http" or "https"
    pc,            \* position of the main thread in run_server / start_https_server
    cwd,           \* working directory: "invocation" or "serving"
    dir,           \* the serving directory: file name -> "absent" | "orig" | "gen"
    dir0,          \* the serving directory as it was when the process started
    opensslCalls,  \* number of subprocess.run(["openssl", ...]) calls made
    opensslOut,    \* the output paths handed to openssl (-keyout, -out)
    genResult,     \* outcome of the generation: "none" | "ok" | "missing" | "failed"
    certPaths,     \* the pair create_self_signed_cert returned, or <<>>
    bound,         \* a TCP listener is bound (TCPServer constructed, not closed)
    everBound,     \* a TCP listener was bound at some time
    wrapped,       \* httpd.socket is the TLS-wrapped socket
    backlog,       \* connections waiting in the listen queue, oldest first
    inService,     \* connections accepted and not yet shut down
    conn,          \* connection -> "new" | "queued" | "accepted" | "handled" | "done" | "dropped"
    req,           \* connection -> the request it sent, or NoReq
    result,        \* connection -> what handling it produced, or NoResult
    log,           \* lines passed to log_message, oldest first
    stoppedMsg,    \* the "Server stopped" message was printed
    interrupted,   \* the interrupt signal was delivered to the process
    exitedFrom,    \* pc at the moment the process ended, or "none"
    exitKind       \* "running" | "interrupt" | "returned" | "uncaught"

vars == <<prog, pc, cwd, dir, dir0, opensslCalls, opensslOut, genResult, certPaths,
          bound, everBound, wrapped, backlog, inService, conn, req, result, log,
          stoppedMsg, interrupted, exitedFrom, exitKind>>

(***************************************************************************)
(* Bounds of the model.                                                    *)
(***************************************************************************)
MaxConns == 2

Conns == 1..MaxConns

(***************************************************************************)
(* Strings.                                                                *)
(***************************************************************************)
EndsWith(s, suf) ==
    /\ Len(suf) <= Len(s)
    /\ SubSeq(s, Len(s) - Len(suf) + 1, Len(s)) = suf

Contains(s, sub) ==
    \E i \in 1..(Len(s) - Len(sub) + 1) : SubSeq(s, i, i + Len(sub) - 1) = sub

DigitChar(d) == <<"0", "1", "2", "3", "4", "5", "6", "7", "8", "9">>[d + 1]

RECURSIVE Str(_)
Str(n) == IF n < 10 THEN <<DigitChar(n)>> ELSE Str(n \div 10) \o <<DigitChar(n % 10)>>

S_wasm == <<".", "w", "a", "s", "m">>
S_js == <<".", "j", "s">>
S_html == <<".", "h", "t", "m", "l">>
S_css == <<".", "c", "s", "s">>
S_txt == <<".", "t", "x", "t">>
S_200 == <<"2", "0", "0">>
S_404 == <<"4", "0", "4">>

T_app == <<"a", "p", "p", "l", "i", "c", "a", "t", "i", "o", "n", "/">>
T_text == <<"t", "e", "x", "t", "/">>
T_wasm == T_app \o <<"w", "a", "s", "m">>
T_appjs == T_app \o <<"j", "a", "v", "a", "s", "c", "r", "i", "p", "t">>
T_textjs == T_text \o <<"j", "a", "v", "a", "s", "c", "r", "i", "p", "t">>
T_html == T_text \o <<"h", "t", "m", "l">>
T_css == T_text \o <<"c", "s", "s">>
T_plain == T_text \o <<"p", "l", "a", "i", "n">>
T_octet == T_app \o <<"o", "c", "t", "e", "t", "-", "s", "t", "r", "e", "a", "m">>

(***************************************************************************)
(* The host library's default guesser, SimpleHTTPRequestHandler.guess_type:*)
(* it looks the extension up and returns ONE string, "type/subtype".       *)
(***************************************************************************)
DefaultGuess(path) ==
    CASE EndsWith(path, S_html) -> T_html
      [] EndsWith(path, S_js) -> T_textjs
      [] EndsWith(path, S_wasm) -> T_wasm
      [] EndsWith(path, S_css) -> T_css
      [] EndsWith(path, S_txt) -> T_plain
      [] OTHER -> T_octet

(***************************************************************************)
(* Python's "a, b = v": v is iterated, and must yield exactly two items.   *)
(* A string yields its characters.                                         *)
(***************************************************************************)
Unpack2(v) ==
    IF Len(v) = 2
    THEN [raised |-> FALSE, first |-> v[1], second |-> v[2]]
    ELSE [raised |-> TRUE, first |-> <<>>, second |-> <<>>]

(***************************************************************************)
(* WebGPUHTTPRequestHandler.guess_type                                     *)
(***************************************************************************)
guess_type(path) ==
    LET u == Unpack2(DefaultGuess(path)) IN
    IF u.raised THEN [raised |-> TRUE, mimetype |-> <<>>, encoding |-> <<>>]
    ELSE IF EndsWith(path, S_wasm)
         THEN [raised |-> FALSE, mimetype |-> T_wasm, encoding |-> u.second]
    ELSE IF EndsWith(path, S_js)
         THEN [raised |-> FALSE, mimetype |-> T_appjs, encoding |-> u.second]
    ELSE IF EndsWith(path, S_html)
         THEN [raised |-> FALSE, mimetype |-> T_html, encoding |-> u.second]
    ELSE [raised |-> FALSE, mimetype |-> u.first, encoding |-> u.second]

(***************************************************************************)
(* WebGPUHTTPRequestHandler.log_message: the marker printed before a line. *)
(***************************************************************************)
\* Variant of Marker with the two tests in the other order.
MarkerSwapped(message) ==
    IF Contains(message, S_404) THEN "failure"
    ELSE IF Contains(message, S_200) THEN "success"
    ELSE "info"

Marker(message) ==
    IF Contains(message, S_200) THEN "success"
    ELSE IF Contains(message, S_404) THEN "failure"
    ELSE "info"

(***************************************************************************)
(* Handler classes: "WebGPU" is WebGPUHTTPRequestHandler (plain server),   *)
(* "Simple" is the library's SimpleHTTPRequestHandler (HTTPS server).      *)
(***************************************************************************)
HandlerOf(p) == IF p = "http" THEN "WebGPU" ELSE "Simple"

LogMessage(h, message, kind, code) ==
    [msg |-> message, kind |-> kind, code |-> code,
     marker |-> IF h = "WebGPU" THEN Marker(message) ELSE "plain"]

GuessType(h, path) ==
    IF h = "WebGPU" THEN guess_type(path)
    ELSE [raised |-> FALSE, mimetype |-> DefaultGuess(path), encoding |-> <<>>]

(***************************************************************************)
(* Response headers.  ver is the handler's request_version: the version of *)
(* the request line, or HTTP/0.9 when the line has none.  The library's    *)
(* send_header and end_headers write nothing when it is HTTP/0.9: such a   *)
(* reply is the bare body.                                                 *)
(***************************************************************************)
V09 == "HTTP/0.9"
V10 == "HTTP/1.0"

H(k, v) == [name |-> k, value |-> v]

COEP == H("Cross-Origin-Embedder-Policy", "require-corp")
COOP == H("Cross-Origin-Opener-Policy", "same-origin")

SendHeader(buf, ver, kv) == IF ver # V09 THEN Append(buf, kv) ELSE buf

RECURSIVE SendAll(_, _, _)
SendAll(buf, ver, kvs) ==
    IF kvs = <<>> THEN buf
    ELSE SendAll(SendHeader(buf, ver, Head(kvs)), ver, Tail(kvs))

LibEndHeaders(buf, ver) == [headers |-> buf, terminated |-> ver # V09]

\* Variant of end_headers that ends the block first: the two headers miss it.
end_headers_super_first(buf, ver) ==
    [headers |-> buf, terminated |-> ver # V09]

end_headers(buf, ver) ==
    LibEndHeaders(SendHeader(SendHeader(buf, ver, COEP), ver, COOP), ver)

EndHeaders(h, buf, ver) ==
    IF h = "WebGPU" THEN end_headers(buf, ver) ELSE LibEndHeaders(buf, ver)

StdHeaders == <<H("Server", "SimpleHTTP"), H("Date", "now")>>

Reply(h, ver, code, extra) ==
    LET e == EndHeaders(h, SendAll(<<>>, ver, StdHeaders \o extra), ver) IN
    [status |-> code, version |-> ver, headers |-> e.headers,
     terminated |-> e.terminated]

(***************************************************************************)
(* Request lines and the two log lines of the library.                     *)
(***************************************************************************)
C_GET == <<"G", "E", "T">>
C_PUT == <<"P", "U", "T">>
C_sp == <<" ">>
C_http10 == <<" ", "H", "T", "T", "P", "/", "1", ".", "0">>
M_code == <<"c", "o", "d", "e", " ">>
M_message == <<",", " ", "m", "e", "s", "s", "a", "g", "e", " ">>
M_notfound == <<"F", "i", "l", "e", " ", "n", "o", "t", " ", "f", "o", "u", "n", "d">>
M_noperm == <<"N", "o", " ", "p", "e", "r", "m", "i", "s", "s", "i", "o", "n", " ", "t", "o", " ", "l", "i", "s", "t", " ", "d", "i", "r", "e", "c", "t", "o", "r", "y">>
M_unsupported == <<"U", "n", "s", "u", "p", "p", "o", "r", "t", "e", "d", " ", "m", "e", "t", "h", "o", "d", " ", "(">>
M_bad09 == <<"B", "a", "d", " ", "H", "T", "T", "P", "/", "0", ".", "9", " ", "r", "e", "q", "u", "e", "s", "t", " ", "t", "y", "p", "e", " ", "(">>
M_close == <<")">>
C_quote == <<"\"">>
C_apos == <<"'">>
C_dash == <<" ", "-">>

RequestLine(r) ==
    r.method \o C_sp \o r.path \o (IF r.ver = V09 THEN <<>> ELSE C_http10)

LogRequest(h, r, code) ==
    LogMessage(h, C_quote \o RequestLine(r) \o C_quote \o C_sp \o Str(code) \o C_dash,
               "request", code)

LogError(h, code, message) ==
    LogMessage(h, M_code \o Str(code) \o M_message \o message, "error", code)

(***************************************************************************)
(* The serving directory.  Regular files are entries of dir; the           *)
(* sub-directories are fixed: d and 404 can be listed, 200 and n cannot    *)
(* (os.listdir fails on them).                                             *)
(***************************************************************************)
CertFile == "server.crt"
KeyFile == "server.key"
IndexFile == "index.html"

Files == {CertFile, KeyFile, IndexFile, "model.wasm", "app.js", "style.css", "missing.txt"}

P_root == <<"/">>
P_index == <<"/", "i", "n", "d", "e", "x", ".", "h", "t", "m", "l">>
P_wasm == <<"/", "m", "o", "d", "e", "l", ".", "w", "a", "s", "m">>
P_js == <<"/", "a", "p", "p", ".", "j", "s">>
P_css == <<"/", "s", "t", "y", "l", "e", ".", "c", "s", "s">>
P_missing == <<"/", "m", "i", "s", "s", "i", "n", "g", ".", "t", "x", "t">>
P_d == <<"/", "d", "/">>
P_dNoSlash == <<"/", "d">>
P_200 == <<"/", "2", "0", "0", "/">>
P_404 == <<"/", "4", "0", "4", "/">>
P_n == <<"/", "n", "/">>
N_index == <<"i", "n", "d", "e", "x", ".", "h", "t", "m", "l">>

FilePaths == {P_index, P_wasm, P_js, P_css, P_missing}
DirPaths == {P_root, P_d, P_dNoSlash, P_200, P_404, P_n}
Paths == FilePaths \cup DirPaths

FileOf(path) ==
    CASE path = P_index -> IndexFile
      [] path = P_wasm -> "model.wasm"
      [] path = P_js -> "app.js"
      [] path = P_css -> "style.css"
      [] OTHER -> "missing.txt"

IsDir(path) == path \in DirPaths

HasIndex(path, d) == path = P_root /\ d[IndexFile] # "absent"

CanList(path) == path \in {P_root, P_d, P_404}

IsFile(path, d) ==
    \/ path \in FilePaths /\ d[FileOf(path)] # "absent"
    \/ path = P_root \o N_index /\ d[IndexFile] # "absent"

(***************************************************************************)
(* What handling one request produces: whether the handler raised, the     *)
(* lines it logged, the reply it sent (none or one) and the guess_type     *)
(* call it made (none or one).                                             *)
(***************************************************************************)
Outcome(raised, lines, reply, guessed) ==
    [raised |-> raised, lines |-> lines, reply |-> reply, guessed |-> guessed]

SendError(h, r, code, message, guessed) ==
    Outcome(FALSE,
            <<LogError(h, code, message), LogRequest(h, r, code)>>,
            <<Reply(h, r.ver, code,
                    <<H("Connection", "close"), H("Content-Type", "text/html;charset=utf-8"),
                      H("Content-Length", "n")>>)>>,
            guessed)

SendFile(h, r, path, d) ==
    LET g == GuessType(h, path)
        called == <<[path |-> path, res |-> g]>> IN
    IF g.raised THEN Outcome(TRUE, <<>>, <<>>, called)
    ELSE IF EndsWith(path, P_root) THEN SendError(h, r, 404, M_notfound, called)
    ELSE IF ~IsFile(path, d) THEN SendError(h, r, 404, M_notfound, called)
    ELSE Outcome(FALSE, <<LogRequest(h, r, 200)>>,
                 <<Reply(h, r.ver, 200,
                         <<H("Content-type", g.mimetype), H("Content-Length", "n"),
                           H("Last-Modified", "then")>>)>>,
                 called)

ListDirectory(h, r, path) ==
    IF ~CanList(path) THEN SendError(h, r, 404, M_noperm, <<>>)
    ELSE Outcome(FALSE, <<LogRequest(h, r, 200)>>,
                 <<Reply(h, r.ver, 200,
                         <<H("Content-type", "text/html; charset=utf-8"),
                           H("Content-Length", "n")>>)>>,
                 <<>>)

SendHead(h, r, d) ==
    IF IsDir(r.path)
    THEN IF ~EndsWith(r.path, P_root)
         THEN Outcome(FALSE, <<LogRequest(h, r, 301)>>,
                      <<Reply(h, r.ver, 301,
                              <<H("Location", "slash"), H("Content-Length", "0")>>)>>,
                      <<>>)
         ELSE IF HasIndex(r.path, d) THEN SendFile(h, r, r.path \o N_index, d)
         ELSE ListDirectory(h, r, r.path)
    ELSE SendFile(h, r, r.path, d)

HandleOneRequest(h, r, d) ==
    IF r.ver = V09 /\ r.method # C_GET
    THEN SendError(h, r, 400, M_bad09 \o C_apos \o r.method \o C_apos \o M_close, <<>>)
    ELSE IF r.method # C_GET
    THEN SendError(h, r, 501, M_unsupported \o C_apos \o r.method \o C_apos \o M_close, <<>>)
    ELSE SendHead(h, r, d)

Request(m, p, v) == [method |-> m, path |-> p, ver |-> v]

Requests ==
    {Request(C_GET, p, V10) : p \in Paths}
        \cup {Request(C_GET, P_d, V09), Request(C_GET, P_200, V09),
              Request(C_PUT, P_index, V10), Request(C_PUT, P_d, V09)}

NoReq == Request(<<>>, <<>>, "none")
NoResult == [raised |-> FALSE, lines |-> <<>>, reply |-> <<>>, guessed |-> <<>>]

(***************************************************************************)
(* Initial state: the process has been started and has run nothing yet.    *)
(* The served files are there; either certificate file may or may not be.  *)
(***************************************************************************)
InitialDirs ==
    {[f \in Files |->
        IF f = CertFile THEN c
        ELSE IF f = KeyFile THEN k
        ELSE IF f = "missing.txt" THEN "absent" ELSE "orig"] :
     c \in {"absent", "orig"}, k \in {"absent", "orig"}}

Init ==
    /\ prog \in {"http", "https"}
    /\ pc = "start"
    /\ cwd = "invocation"
    /\ dir \in InitialDirs
    /\ dir0 = dir
    /\ opensslCalls = 0
    /\ opensslOut = {}
    /\ genResult = "none"
    /\ certPaths = <<>>
    /\ bound = FALSE
    /\ everBound = FALSE
    /\ wrapped = FALSE
    /\ backlog = <<>>
    /\ inService = {}
    /\ conn = [c \in Conns |-> "new"]
    /\ req = [c \in Conns |-> NoReq]
    /\ result = [c \in Conns |-> NoResult]
    /\ log = <<>>
    /\ stoppedMsg = FALSE
    /\ interrupted = FALSE
    /\ exitedFrom = "none"
    /\ exitKind = "running"

(***************************************************************************)
(* The process ends: by return, by an uncaught exception, or by the        *)
(* KeyboardInterrupt handler.  Leaving the with-block closes the listener; *)
(* a connection in service is shut down without a reply, the backlog is    *)
(* left as it is.                                                          *)
(***************************************************************************)
Stop(kind, msg, intr) ==
    /\ pc' = "exited"
    /\ exitedFrom' = pc
    /\ exitKind' = kind
    /\ stoppedMsg' = msg
    /\ interrupted' = intr
    /\ bound' = FALSE
    /\ inService' = {}
    /\ conn' = [c \in Conns |-> IF c \in inService THEN "dropped" ELSE conn[c]]
    /\ UNCHANGED <<prog, cwd, dir, dir0, opensslCalls, opensslOut, genResult, certPaths,
                   everBound, wrapped, backlog, req, result, log>>

(***************************************************************************)
(* os.chdir(directory)                                                     *)
(***************************************************************************)
\* Variant of Chdir that leaves the working directory where it was.
ChdirForgotten ==
    /\ pc = "start"
    /\ pc' = IF prog = "https" THEN "cert" ELSE "bind"
    /\ UNCHANGED <<prog, cwd, dir, dir0, opensslCalls, opensslOut, genResult, certPaths,
                   bound, everBound, wrapped, backlog, inService, conn, req, result,
                   log, stoppedMsg, interrupted, exitedFrom, exitKind>>

Chdir ==
    /\ pc = "start"
    /\ cwd' = "serving"
    /\ pc' = IF prog = "https" THEN "cert" ELSE "bind"
    /\ UNCHANGED <<prog, dir, dir0, opensslCalls, opensslOut, genResult, certPaths,
                   bound, everBound, wrapped, backlog, inService, conn, req, result,
                   log, stoppedMsg, interrupted, exitedFrom, exitKind>>

ChdirFails ==
    /\ pc = "start"
    /\ Stop("uncaught", FALSE, interrupted)

(***************************************************************************)
(* create_self_signed_cert                                                 *)
(***************************************************************************)
\* Variant of CertPairExists that is content with one of the two files.
CertPairExistsEither(d) == d[CertFile] # "absent" \/ d[KeyFile] # "absent"

CertPairExists(d) == d[CertFile] # "absent" /\ d[KeyFile] # "absent"

UseExistingCert ==
    /\ pc = "cert"
    /\ CertPairExists(dir)
    /\ certPaths' = <<CertFile, KeyFile>>
    /\ pc' = "bind"
    /\ UNCHANGED <<prog, cwd, dir, dir0, opensslCalls, opensslOut, genResult,
                   bound, everBound, wrapped, backlog, inService, conn, req, result,
                   log, stoppedMsg, interrupted, exitedFrom, exitKind>>

\* Variant of OpensslOutputs with -out pointing at a served file.
OpensslOutputsMisdirected == {KeyFile, IndexFile}

OpensslOutputs == {KeyFile, CertFile}

\* The files openssl has written when it ends with `outcome`.
Written(outcome) ==
    CASE outcome = "ok" -> {OpensslOutputs}
      [] outcome = "missing" -> {{}}
      [] OTHER -> SUBSET OpensslOutputs

Generate ==
    \E outcome \in {"ok", "missing", "failed"} : \E w \in Written(outcome) :
        /\ opensslCalls' = opensslCalls + 1
        /\ opensslOut' = OpensslOutputs
        /\ genResult' = outcome
        /\ dir' = [f \in Files |-> IF f \in w THEN "gen" ELSE dir[f]]
        /\ pc' = IF outcome = "ok" THEN "generated" ELSE "genfailed"
        /\ UNCHANGED <<prog, cwd, dir0, certPaths, bound, everBound, wrapped, backlog,
                       inService, conn, req, result, log, stoppedMsg, interrupted,
                       exitedFrom, exitKind>>

\* Variant of RunOpenssl without the early return for an existing pair.
RunOpensslUnconditionally ==
    /\ pc = "cert"
    /\ Generate

RunOpenssl ==
    /\ pc = "cert"
    /\ ~CertPairExists(dir)
    /\ Generate

CertCreated ==
    /\ pc = "generated"
    /\ certPaths' = <<CertFile, KeyFile>>
    /\ pc' = "bind"
    /\ UNCHANGED <<prog, cwd, dir, dir0, opensslCalls, opensslOut, genResult,
                   bound, everBound, wrapped, backlog, inService, conn, req, result,
                   log, stoppedMsg, interrupted, exitedFrom, exitKind>>

(***************************************************************************)
(* start_https_server: the two except clauses print the error and return.  *)
(***************************************************************************)
\* Variant of ReportCertError whose handler does not return.
ReportCertErrorAndGoOn ==
    /\ pc = "genfailed"
    /\ pc' = "bind"
    /\ UNCHANGED <<prog, cwd, dir, dir0, opensslCalls, opensslOut, genResult, certPaths,
                   bound, everBound, wrapped, backlog, inService, conn, req, result,
                   log, stoppedMsg, interrupted, exitedFrom, exitKind>>

ReportCertError ==
    /\ pc = "genfailed"
    /\ Stop("returned", FALSE, interrupted)

(***************************************************************************)
(* socketserver.TCPServer(("", port), handler): binds and listens.         *)
(***************************************************************************)
Bind ==
    /\ pc = "bind"
    /\ bound' = TRUE
    /\ everBound' = TRUE
    /\ pc' = IF prog = "https" THEN "wrap" ELSE "banner"
    /\ UNCHANGED <<prog, cwd, dir, dir0, opensslCalls, opensslOut, genResult, certPaths,
                   wrapped, backlog, inService, conn, req, result, log, stoppedMsg,
                   interrupted, exitedFrom, exitKind>>

BindFails ==
    /\ pc = "bind"
    /\ Stop("uncaught", FALSE, interrupted)

(***************************************************************************)
(* context.load_cert_chain(cert_file, key_file); context.wrap_socket(...)  *)
(* A pair openssl has just written loads; files found on disk are not      *)
(* validated by the script and may fail to load.                           *)
(***************************************************************************)
Loadable(d) == Len(certPaths) = 2 /\ \A i \in 1..2 : d[certPaths[i]] # "absent"

WrapSocket ==
    /\ pc = "wrap"
    /\ Loadable(dir)
    /\ wrapped' = TRUE
    /\ pc' = "banner"
    /\ UNCHANGED <<prog, cwd, dir, dir0, opensslCalls, opensslOut, genResult, certPaths,
                   bound, everBound, backlog, inService, conn, req, result, log,
                   stoppedMsg, interrupted, exitedFrom, exitKind>>

WrapFails ==
    /\ pc = "wrap"
    /\ ~Loadable(dir) \/ \E i \in 1..Len(certPaths) : dir[certPaths[i]] = "orig"
    /\ Stop("uncaught", FALSE, interrupted)

ServeForever ==
    /\ pc = "banner"
    /\ pc' = "serving"
    /\ UNCHANGED <<prog, cwd, dir, dir0, opensslCalls, opensslOut, genResult, certPaths,
                   bound, everBound, wrapped, backlog, inService, conn, req, result,
                   log, stoppedMsg, interrupted, exitedFrom, exitKind>>

(***************************************************************************)
(* The interrupt signal: KeyboardInterrupt is raised in the main thread.   *)
(* Only the try around httpd.serve_forever() catches it.                   *)
(***************************************************************************)
\* Variant of InServeLoop whose try block also encloses the banner.
InServeLoopOrBanner(p) == p \in {"banner", "serving"}

InServeLoop(p) == p = "serving"

Interrupt ==
    /\ pc # "exited"
    /\ IF InServeLoop(pc)
       THEN Stop("interrupt", TRUE, TRUE)
       ELSE Stop("uncaught", FALSE, TRUE)

(***************************************************************************)
(* Clients.  A client connects once the listener is bound.  The server     *)
(* reads a request only from the connection it has accepted, so a request  *)
(* is modelled as arriving after the accept: at any later time, or never.  *)
(***************************************************************************)
ClientConnect ==
    \E c \in Conns :
        /\ bound
        /\ conn[c] = "new"
        /\ conn' = [conn EXCEPT ![c] = "queued"]
        /\ backlog' = Append(backlog, c)
        /\ UNCHANGED <<prog, pc, cwd, dir, dir0, opensslCalls, opensslOut, genResult,
                       certPaths, bound, everBound, wrapped, inService, req, result,
                       log, stoppedMsg, interrupted, exitedFrom, exitKind>>

ClientSend ==
    \E c \in Conns : \E r \in Requests :
        /\ pc # "exited"
        /\ conn[c] = "accepted"
        /\ req[c] = NoReq
        /\ req' = [req EXCEPT ![c] = r]
        /\ UNCHANGED <<prog, pc, cwd, dir, dir0, opensslCalls, opensslOut, genResult,
                       certPaths, bound, everBound, wrapped, backlog, inService, conn,
                       result, log, stoppedMsg, interrupted, exitedFrom, exitKind>>

(***************************************************************************)
(* httpd.serve_forever() of socketserver.TCPServer: one thread; a          *)
(* connection is accepted, handled and shut down before the next accept.   *)
(***************************************************************************)
\* Variant of Accept as a threading server would do it.
AcceptWhileBusy ==
    /\ pc = "serving"
    /\ backlog # <<>>
    /\ inService' = inService \cup {Head(backlog)}
    /\ conn' = [conn EXCEPT ![Head(backlog)] = "accepted"]
    /\ backlog' = Tail(backlog)
    /\ UNCHANGED <<prog, pc, cwd, dir, dir0, opensslCalls, opensslOut, genResult,
                   certPaths, bound, everBound, wrapped, req, result, log, stoppedMsg,
                   interrupted, exitedFrom, exitKind>>

Accept ==
    /\ pc = "serving"
    /\ inService = {}
    /\ backlog # <<>>
    /\ inService' = {Head(backlog)}
    /\ conn' = [conn EXCEPT ![Head(backlog)] = "accepted"]
    /\ backlog' = Tail(backlog)
    /\ UNCHANGED <<prog, pc, cwd, dir, dir0, opensslCalls, opensslOut, genResult,
                   certPaths, bound, everBound, wrapped, req, result, log, stoppedMsg,
                   interrupted, exitedFrom, exitKind>>

\* HTTPS only: the TLS handshake made inside accept() fails; get_request raises
\* OSError, which the serve loop swallows.
AcceptHandshakeFails ==
    /\ prog = "https"
    /\ pc = "serving"
    /\ inService = {}
    /\ backlog # <<>>
    /\ conn' = [conn EXCEPT ![Head(backlog)] = "dropped"]
    /\ backlog' = Tail(backlog)
    /\ UNCHANGED <<prog, pc, cwd, dir, dir0, opensslCalls, opensslOut, genResult,
                   certPaths, bound, everBound, wrapped, inService, req, result, log,
                   stoppedMsg, interrupted, exitedFrom, exitKind>>

TagLines(c, lines) ==
    [i \in 1..Len(lines) |->
        [conn |-> c, msg |-> lines[i].msg, kind |-> lines[i].kind,
         code |-> lines[i].code, marker |-> lines[i].marker]]

Handle ==
    \E c \in inService :
        /\ pc = "serving"
        /\ conn[c] = "accepted"
        /\ req[c] # NoReq
        /\ LET o == HandleOneRequest(HandlerOf(prog), req[c], dir) IN
            /\ result' = [result EXCEPT ![c] = o]
            /\ log' = log \o TagLines(c, o.lines)
        /\ conn' = [conn EXCEPT ![c] = "handled"]
        /\ UNCHANGED <<prog, pc, cwd, dir, dir0, opensslCalls, opensslOut, genResult,
                       certPaths, bound, everBound, wrapped, backlog, inService, req,
                       stoppedMsg, interrupted, exitedFrom, exitKind>>

\* shutdown_request, also after handle_error has reported a handler's exception.
Finish ==
    \E c \in inService :
        /\ pc = "serving"
        /\ conn[c] = "handled"
        /\ inService' = inService \ {c}
        /\ conn' = [conn EXCEPT ![c] = "done"]
        /\ UNCHANGED <<prog, pc, cwd, dir, dir0, opensslCalls, opensslOut, genResult,
                       certPaths, bound, everBound, wrapped, backlog, req, result, log,
                       stoppedMsg, interrupted, exitedFrom, exitKind>>

Next ==
    \/ Chdir
    \/ ChdirFails
    \/ UseExistingCert
    \/ RunOpenssl
    \/ CertCreated
    \/ ReportCertError
    \/ Bind
    \/ BindFails
    \/ WrapSocket
    \/ WrapFails
    \/ ServeForever
    \/ Interrupt
    \/ ClientConnect
    \/ ClientSend
    \/ Accept
    \/ AcceptHandshakeFails
    \/ Handle
    \/ Finish

Spec == Init /\ [][Next]_vars

(***************************************************************************)
(* Vocabulary of the properties.                                           *)
(***************************************************************************)
Replied == {c \in Conns : result[c].reply # <<>>}

ReplyOf(c) == result[c].reply[1]

HasHeader(hs, h) ==
    \E i \in 1..Len(hs) : hs[i].name = h.name /\ hs[i].value = h.value

NeitherAtStart == dir0[CertFile] = "absent" /\ dir0[KeyFile] = "absent"

BothAtStart == dir0[CertFile] # "absent" /\ dir0[KeyFile] # "absent"

ExactlyOneAtStart == ~NeitherAtStart /\ ~BothAtStart

\* The start has got past the lookup of the certificate pair.
PastLookup ==
    \/ pc \in {"generated", "genfailed", "bind", "wrap", "banner", "serving"}
    \/ pc = "exited" /\ exitedFrom \notin {"start", "cert"}

Served == {c \in Conns : conn[c] \in {"accepted", "handled", "done"}}

(***************************************************************************)
(* C1.  In the plain HTTP server every call of guess_type returns a pair   *)
(* whose content type is application/wasm for a path ending in .wasm,      *)
(* application/javascript for .js, text/html for .html, and the default    *)
(* guesser's type for any other path.                                      *)
(***************************************************************************)
ExpectedType(path) ==
    IF EndsWith(path, S_wasm) THEN T_wasm
    ELSE IF EndsWith(path, S_js) THEN T_appjs
    ELSE IF EndsWith(path, S_html) THEN T_html
    ELSE DefaultGuess(path)

C1_GuessTypeContract ==
    prog = "http" =>
        \A c \in Conns : \A i \in 1..Len(result[c].guessed) :
            LET g == result[c].guessed[i] IN
            /\ ~g.res.raised
            /\ g.res.mimetype = ExpectedType(g.path)

(***************************************************************************)
(* C2 as stated.  Every response the plain HTTP server sends carries both  *)
(* Cross-Origin-Embedder-Policy: require-corp and                          *)
(* Cross-Origin-Opener-Policy: same-origin, inside a terminated header     *)
(* block.                                                                  *)
(***************************************************************************)
C2_EveryResponseCarriesBoth ==
    prog = "http" =>
        \A c \in Replied :
            /\ HasHeader(ReplyOf(c).headers, COEP)
            /\ HasHeader(ReplyOf(c).headers, COOP)
            /\ ReplyOf(c).terminated

(***************************************************************************)
(* C2 amended.  Every response the plain HTTP server sends while the        *)
(* handler's request version is not HTTP/0.9 has a terminated header block *)
(* that starts with the library's standard headers and ends with the two   *)
(* policy headers, in that order and nowhere earlier; no header block is   *)
(* terminated without them; a response sent while the request version is   *)
(* HTTP/0.9 has no header block at all.                                    *)
(***************************************************************************)
C2_HeaderBlocksCarryBoth ==
    prog = "http" =>
        \A c \in Replied :
            LET r == ReplyOf(c)
                n == Len(r.headers) IN
            /\ r.version # V09 =>
                /\ r.terminated
                /\ n >= 4
                /\ r.headers[1].name = "Server"
                /\ r.headers[2].name = "Date"
                /\ r.headers[n - 1].name = COEP.name /\ r.headers[n - 1].value = COEP.value
                /\ r.headers[n].name = COOP.name /\ r.headers[n].value = COOP.value
                /\ \A i \in 1..(n - 2) : r.headers[i].name \notin {COEP.name, COOP.name}
            /\ r.terminated => HasHeader(r.headers, COEP) /\ HasHeader(r.headers, COOP)
            /\ r.version = V09 => r.headers = <<>> /\ ~r.terminated

C2_Witness ==
    /\ prog = "http"
    /\ \E c1 \in Replied : \E c2 \in Replied :
        /\ ReplyOf(c1).status = 200 /\ ReplyOf(c1).terminated
        /\ ReplyOf(c2).status = 404 /\ ReplyOf(c2).terminated
        /\ HasHeader(ReplyOf(c2).headers, COOP)

(***************************************************************************)
(* C3.  An HTTPS start that finds neither server.crt nor server.key has    *)
(* invoked the generation command exactly once when it gets past the       *)
(* certificate step, and never more than once; a start that finds both     *)
(* never invokes it and leaves both files as they were.                    *)
(***************************************************************************)
C3_GenerateOnceOrReuse ==
    prog = "https" =>
        /\ opensslCalls <= 1
        /\ NeitherAtStart /\ PastLookup => opensslCalls = 1
        /\ BothAtStart =>
            /\ opensslCalls = 0
            /\ genResult = "none"
            /\ dir[CertFile] = dir0[CertFile]
            /\ dir[KeyFile] = dir0[KeyFile]

C3_Witness ==
    /\ prog = "https"
    /\ NeitherAtStart
    /\ pc = "serving"
    /\ opensslCalls = 1

(***************************************************************************)
(* C4.  After a generation that failed (tool missing, or non-zero exit)    *)
(* no listener is or ever was bound, the command has run once and is not   *)
(* run again, and the start ends by returning.                             *)
(***************************************************************************)
C4_NoListenerAfterFailedGeneration ==
    prog = "https" =>
        /\ genResult \in {"missing", "failed"} =>
            /\ ~bound /\ ~everBound /\ ~wrapped
            /\ opensslCalls = 1
            /\ certPaths = <<>>
            /\ pc \in {"genfailed", "exited"}
            /\ Served = {}
        /\ exitKind = "returned" => genResult \in {"missing", "failed"} /\ ~everBound

C4_Witness ==
    /\ prog = "https"
    /\ genResult = "missing"
    /\ exitKind = "returned"
    /\ opensslCalls = 1

(***************************************************************************)
(* C5.  HTTPS startup order: the certificate pair is looked up or          *)
(* generated only after the chdir, the listener is bound only after the    *)
(* pair is resolved, the accept loop runs only on the TLS-wrapped socket;  *)
(* so with no certificate files at the start, both exist (freshly written) *)
(* in the serving directory once any connection has been accepted.         *)
(***************************************************************************)
C5_StartupOrder ==
    prog = "https" =>
        /\ (pc \in {"cert", "generated", "genfailed"} \/ opensslCalls > 0 \/ certPaths # <<>>)
              => cwd = "serving"
        /\ everBound => certPaths = <<CertFile, KeyFile>>
        /\ wrapped => everBound
        /\ (pc = "serving" \/ Served # {}) => wrapped
        /\ (NeitherAtStart /\ (pc = "serving" \/ Served # {}))
              => dir[CertFile] = "gen" /\ dir[KeyFile] = "gen"

C5_Witness ==
    /\ prog = "https"
    /\ NeitherAtStart
    /\ cwd = "serving"
    /\ \E c \in Conns : conn[c] = "done"
    /\ dir[CertFile] = "gen" /\ dir[KeyFile] = "gen"

(***************************************************************************)
(* C6 as stated.  In every reachable state of either server the files of   *)
(* the served directory and their contents are those the process started   *)
(* with.                                                                   *)
(***************************************************************************)
C6_DirectoryNeverMutated == dir = dir0

(***************************************************************************)
(* C6 amended.  The plain HTTP server never changes the served directory,  *)
(* and no request handling of either server does.  The only writes are     *)
(* those of the HTTPS start's certificate generation, which creates or     *)
(* overwrites server.crt and server.key in the served directory; no other  *)
(* file is touched and no file is deleted.                                 *)
(***************************************************************************)
C6_OnlyCertificateFilesWritten ==
    /\ \A f \in Files \ {CertFile, KeyFile} : dir[f] = dir0[f]
    /\ \A f \in Files : dir[f] # dir0[f] => dir[f] = "gen"
    /\ prog = "http" => dir = dir0
    /\ opensslCalls = 0 => dir = dir0
    /\ genResult = "ok" =>
          dir = [f \in Files |-> IF f \in {CertFile, KeyFile} THEN "gen" ELSE dir0[f]]

C6_Witness ==
    /\ prog = "https"
    /\ dir # dir0
    /\ \E c \in Conns : conn[c] = "done" /\ result[c].reply # <<>>

(***************************************************************************)
(* C7 as stated.  Whenever the interrupt signal arrives while the process  *)
(* is running, the server prints its shutdown message and exits cleanly.   *)
(***************************************************************************)
C7_InterruptAlwaysHandled ==
    interrupted => stoppedMsg /\ exitKind = "interrupt"

(***************************************************************************)
(* C7 amended.  A server that has entered serve_forever leaves it only by  *)
(* the interrupt; an interrupt that arrives inside serve_forever prints    *)
(* the shutdown message and ends the process cleanly, with the listener    *)
(* closed, the connection in service dropped and the backlog not drained.  *)
(* An interrupt that arrives before serve_forever is not caught: the       *)
(* process ends with an uncaught KeyboardInterrupt and prints no shutdown  *)
(* message.                                                                *)
(***************************************************************************)
C7_InterruptHandledInServeLoop ==
    /\ interrupted =>
        /\ pc = "exited"
        /\ stoppedMsg <=> exitedFrom = "serving"
        /\ exitKind = (IF exitedFrom = "serving" THEN "interrupt" ELSE "uncaught")
    /\ exitedFrom = "serving" => interrupted
    /\ stoppedMsg => interrupted
    /\ pc = "exited" =>
        /\ ~bound
        /\ inService = {}
        /\ \A i \in 1..Len(backlog) : conn[backlog[i]] = "queued"

C7_Witness ==
    /\ interrupted
    /\ exitedFrom = "serving"
    /\ stoppedMsg
    /\ backlog # <<>>
    /\ \E c \in Conns : conn[c] = "dropped"

(***************************************************************************)
(* C8.  In both servers at most one connection is in service at any time:  *)
(* the connections accepted and not yet shut down are exactly those in     *)
(* service, and there is never more than one, so while a client that has   *)
(* sent nothing is in service every later connection waits in the backlog. *)
(***************************************************************************)
C8_OneConnectionAtATime ==
    /\ Cardinality(inService) <= 1
    /\ {c \in Conns : conn[c] \in {"accepted", "handled"}} = inService
    /\ \A c \in inService : \A i \in 1..Len(backlog) :
          backlog[i] # c /\ conn[backlog[i]] = "queued"

C8_Witness ==
    /\ \E c \in inService : conn[c] = "accepted" /\ req[c] = NoReq
    /\ backlog # <<>>
    /\ pc = "serving"

(***************************************************************************)
(* C9 as stated.  Every log line of the plain HTTP server has the success  *)
(* marker if it contains "200", else the failure marker if it contains     *)
(* "404", else the informational marker; and the line of every request     *)
(* answered with 404 has the failure marker.                               *)
(***************************************************************************)
ChainMarker(l) ==
    /\ Contains(l.msg, S_200) => l.marker = "success"
    /\ ~Contains(l.msg, S_200) /\ Contains(l.msg, S_404) => l.marker = "failure"
    /\ ~Contains(l.msg, S_200) /\ ~Contains(l.msg, S_404) => l.marker = "info"

C9_Every404LoggedAsFailure ==
    prog = "http" =>
        \A i \in 1..Len(log) :
            /\ ChainMarker(log[i])
            /\ log[i].code = 404 => log[i].marker = "failure"

(***************************************************************************)
(* C9 amended.  Every log line of the plain HTTP server has exactly one    *)
(* marker: success if it contains "200"; otherwise failure if it contains  *)
(* "404"; otherwise informational.  A request answered with 404 logs an    *)
(* error line, which has the failure marker, and a request line, which has *)
(* the failure marker unless the request line contains "200", when it has  *)
(* the success marker.  The reply has the status its request line logs,    *)
(* whatever the marker.                                                    *)
(***************************************************************************)
C9_MarkerBySubstring ==
    prog = "http" =>
        /\ \A i \in 1..Len(log) :
            LET l == log[i] IN
            /\ ChainMarker(l)
            /\ l.code = 404 /\ l.kind = "error" => l.marker = "failure"
            /\ l.code = 404 /\ l.kind = "request" =>
                  l.marker = (IF Contains(RequestLine(req[l.conn]), S_200)
                              THEN "success" ELSE "failure")
            /\ l.kind = "request" =>
                  l.conn \in Replied /\ ReplyOf(l.conn).status = l.code
        /\ \A c \in Replied :
              \E i \in 1..Len(log) :
                  log[i].conn = c /\ log[i].kind = "request"
                      /\ log[i].code = ReplyOf(c).status

C9_Witness ==
    /\ prog = "http"
    /\ \E i \in 1..Len(log) :
          log[i].code = 404 /\ log[i].kind = "request" /\ log[i].marker = "success"
    /\ \E i \in 1..Len(log) :
          log[i].code = 404 /\ log[i].kind = "request" /\ log[i].marker = "failure"

(***************************************************************************)
(* C10.  An HTTPS start that finds exactly one of server.crt and           *)
(* server.key treats the pair as absent: once past the lookup it has       *)
(* invoked the generation command once, with both fixed output paths; a    *)
(* listener is bound only after that generation succeeded, and then both   *)
(* files, the surviving one included, are the newly written ones.          *)
(***************************************************************************)
C10_HalfPairRegenerated ==
    prog = "https" /\ ExactlyOneAtStart =>
        /\ opensslCalls <= 1
        /\ PastLookup => opensslCalls = 1 /\ opensslOut = {KeyFile, CertFile}
        /\ certPaths # <<>> => genResult = "ok"
        /\ everBound =>
            /\ genResult = "ok"
            /\ dir[CertFile] = "gen"
            /\ dir[KeyFile] = "gen"

C10_Witness ==
    /\ prog = "https"
    /\ ExactlyOneAtStart
    /\ pc = "serving"
    /\ bound
    /\ opensslCalls = 1
    /\ dir[CertFile] = "gen" /\ dir[KeyFile] = "gen"

====
